---------------------------- MODULE Spec2Model ----------------------------
(***************************************************************************)
(* The fetch / normalize / cache pipeline of the n8n workflow gallery      *)
(* server (src/server.js).  The file holds two variants of the server:     *)
(*   variant 1 (lines 1-210):   root listing + eager content fetch,        *)
(*   variant 2 (lines 212-607): exploreRepository (root + one level of     *)
(*                              folders), lazy content fetch, structure.   *)
(* Both share the single-slot cache with a five minute time-to-live.       *)
(*                                                                         *)
(* Scheduling model: Node's event loop.  Every `await` of an upstream      *)
(* HTTP request is a point at which other handlers may run; code between   *)
(* two such awaits runs to completion.  One action of this module is one   *)
(* such run-to-completion segment of one request handler.                  *)
(***************************************************************************)
EXTENDS Integers, Sequences, FiniteSets, TLC

(***************************************************************************)
(* Bounds of the model.                                                    *)
(***************************************************************************)
MaxReqs == 2      \* HTTP requests served in one behaviour
MaxTicks == 1     \* advances of the wall clock in one behaviour
MaxWords == 3     \* words in a file name handed to the name derivation

Reqs == 1..MaxReqs

(***************************************************************************)
(* Program constants.                                                      *)
(***************************************************************************)
CACHE_DURATION == 5 * 60 * 1000

\* cache.data = null: no snapshot.  Snapshots are named by the request that
\* built them (1..MaxReqs), so 0 names none.
Null == 0

\* Date.now() when the process starts: far beyond CACHE_DURATION (epoch ms).
StartTime == CACHE_DURATION + 1

\* The clock advances by one millisecond or by a whole time-to-live.
TickSteps == {1, CACHE_DURATION}

(***************************************************************************)
(* Strings.  TLC cannot look inside a string, so every name the model uses *)
(* is listed with its characters; endsWith / includes are computed on the  *)
(* characters.                                                             *)
(***************************************************************************)
Chars(s) ==
    CASE s = "a.json"        -> <<"a", ".", "j", "s", "o", "n">>
      [] s = "b.json"        -> <<"b", ".", "j", "s", "o", "n">>
      [] s = "c.json"        -> <<"c", ".", "j", "s", "o", "n">>
      [] s = "missing.json"  -> <<"m", "i", "s", "s", "i", "n", "g", ".", "j", "s", "o", "n">>
      [] s = "package.json"  -> <<"p", "a", "c", "k", "a", "g", "e", ".", "j", "s", "o", "n">>
      [] s = "README.md"     -> <<"R", "E", "A", "D", "M", "E", ".", "m", "d">>
      [] s = "notes.txt"     -> <<"n", "o", "t", "e", "s", ".", "t", "x", "t">>
      [] s = ".json"         -> <<".", "j", "s", "o", "n">>
      [] s = "tsconfig.json" -> <<"t", "s", "c", "o", "n", "f", "i", "g", ".", "j", "s", "o", "n">>
      [] s = "composer.json" -> <<"c", "o", "m", "p", "o", "s", "e", "r", ".", "j", "s", "o", "n">>
      [] s = "workflows"     -> <<"w", "o", "r", "k", "f", "l", "o", "w", "s">>
      [] s = "docs"          -> <<"d", "o", "c", "s">>
      [] s = "root"          -> <<"r", "o", "o", "t">>

\* String.prototype.endsWith
EndsWith(s, suffix) ==
    LET c == Chars(s)
        x == Chars(suffix)
    IN  /\ Len(x) <= Len(c)
        /\ SubSeq(c, Len(c) - Len(x) + 1, Len(c)) = x

\* String.prototype.includes
Includes(s, sub) ==
    LET c == Chars(s)
        x == Chars(sub)
    IN  \E i \in 1..(Len(c) - Len(x) + 1) : SubSeq(c, i, i + Len(x) - 1) = x

(***************************************************************************)
(* The upstream repository (GitHub contents API).                          *)
(***************************************************************************)
File(n, p) == [name |-> n, type |-> "file", path |-> p, folder |-> ""]
Dir(n)     == [name |-> n, type |-> "dir",  path |-> n, folder |-> ""]
\* A directory inside a directory.
SubDir(n, p) == [name |-> n, type |-> "dir", path |-> p, folder |-> ""]

\* A parsed workflow document, as far as the server reads it.
Doc(nm, ds, hn, n, hc, c) ==
    [present |-> TRUE, name |-> nm, description |-> ds,
     hasNodes |-> hn, nodes |-> n, hasConnections |-> hc, connections |-> c]

\* workflow: null
NoDoc == [present |-> FALSE, name |-> "", description |-> "",
          hasNodes |-> FALSE, nodes |-> 0, hasConnections |-> FALSE, connections |-> 0]

\* Layout 1: a workflow file in the root, two folders, files the root filter drops.
\* Layout 2: no workflow file in the root; one folder holds them all.
\* Layout 3: a folder holds a file named like one in the root, and a directory
\*           of its own with a workflow file two levels below the root.
\* Layout 4: a workflow file in the root, and a folder that is itself named
\*           "root" holding another.
Layouts == <<
    [ root |-> << Dir("workflows"), Dir("docs"), File("a.json", "a.json"),
                  File("package.json", "package.json"), File("README.md", "README.md") >>,
      dirs |-> [ d \in {"workflows", "docs"} |->
                   IF d = "workflows"
                   THEN << File("b.json", "workflows/b.json"), File("notes.txt", "workflows/notes.txt") >>
                   ELSE << File("c.json", "docs/c.json"), File("package.json", "docs/package.json") >> ] ],
    [ root |-> << Dir("workflows"), File("tsconfig.json", "tsconfig.json") >>,
      dirs |-> [ d \in {"workflows"} |->
                   << File("a.json", "workflows/a.json"), File("b.json", "workflows/b.json") >> ] ],
    [ root |-> << File("a.json", "a.json"), Dir("workflows") >>,
      dirs |-> [ d \in {"workflows", "workflows/nested"} |->
                   IF d = "workflows"
                   THEN << SubDir("nested", "workflows/nested"),
                           File("a.json", "workflows/a.json") >>
                   ELSE << File("c.json", "workflows/nested/c.json") >> ] ],
    [ root |-> << File("a.json", "a.json"), Dir("root") >>,
      dirs |-> [ d \in {"root"} |-> << File("b.json", "root/b.json") >> ] ]
>>

\* What download_url serves for a file.
Content(path) ==
    CASE path = "a.json"                         -> Doc("Alpha", "", TRUE, 2, TRUE, 1)
      [] path = "workflows/a.json"               -> Doc("Alpha", "", TRUE, 3, TRUE, 2)
      [] path = "workflows/b.json"               -> Doc("", "about b", TRUE, 0, FALSE, 0)
      [] OTHER                                   -> Doc("", "", FALSE, 0, FALSE, 0)

\* Filenames a client asks GET /api/workflow/:filename for.
Asked == {"a.json", "missing.json"}


(***************************************************************************)
(* exploreRepository (variant 2), as pure steps.                           *)
(***************************************************************************)
MapSeq(s, Op(_)) == [i \in 1..Len(s) |-> Op(s[i])]

\* githubRequest(`/repos/${GITHUB_OWNER}/${GITHUB_REPO}/contents`): the path listed.
RootPath == ""

\* githubRequest(`/repos/.../contents/${folder.path}`): the path listed.
ListingPath(folder) == folder.path

\* const folders = rootContents.filter(item => item.type === 'dir')
Folders(rootContents) == SelectSeq(rootContents, LAMBDA item : item.type = "dir")

\* The root filter: JSON files that are not package / tsconfig / composer manifests.
RootJsonFiles(rootContents) ==
    SelectSeq(rootContents, LAMBDA item :
        /\ item.type = "file"
        /\ EndsWith(item.name, ".json")
        /\ ~Includes(item.name, "package.json")
        /\ ~Includes(item.name, "tsconfig.json")
        /\ ~Includes(item.name, "composer.json"))

\* The folder filter, and file.folder = folder.name on every match.
JsonFilesInFolder(folderContents, folderName) ==
    MapSeq(SelectSeq(folderContents, LAMBDA item :
               item.type = "file" /\ EndsWith(item.name, ".json")),
           LAMBDA file : [file EXCEPT !.folder = folderName])

\* A folder's failure discarding what the walk has collected.
OnFolderError_abort(allJsonFiles) == <<>>

\* catch (error) { console.log(`Could not access folder ...`) }: the loop goes on
\* with what it has.
OnFolderError(allJsonFiles) == allJsonFiles

\* The walk descending into the directories it finds inside a folder.
AfterFolder_recursive(allJsonFiles, folder, answer, dirs) ==
    IF answer # "ok" THEN allJsonFiles
    ELSE LET here == dirs[folder.path]
             subs == SelectSeq(here, LAMBDA item : item.type = "dir")
         IN  allJsonFiles \o JsonFilesInFolder(here, folder.name)
                 \o (IF Len(subs) = 0 THEN <<>>
                      ELSE JsonFilesInFolder(dirs[subs[1].path], folder.name))

\* One turn of `for (const folder of folders)` once the folder's listing has
\* answered: "ok" (an array), "nonarray" (a body that is no array), "fail" (the
\* request threw).
AfterFolder(allJsonFiles, folder, answer, dirs) ==
    CASE answer = "ok"       -> allJsonFiles \o JsonFilesInFolder(dirs[folder.path], folder.name)
      [] answer = "nonarray" -> allJsonFiles
      [] OTHER               -> OnFolderError(allJsonFiles)

CountInFolder(allJsonFiles, folderName) ==
    Len(SelectSeq(allJsonFiles, LAMBDA f : f.folder = folderName))

\* folders.reduce((acc, folder) => ..., { root: rootJsonFiles.length })
RECURSIVE FilesByFolder(_, _, _, _)
FilesByFolder(folders, k, allJsonFiles, rootCount) ==
    IF k = 0 THEN ("root" :> rootCount)
    ELSE LET acc == FilesByFolder(folders, k - 1, allJsonFiles, rootCount)
             n   == CountInFolder(allJsonFiles, folders[k].name)
         IN  IF n > 0
             THEN [x \in DOMAIN acc \cup {folders[k].name} |->
                     IF x = folders[k].name THEN n ELSE acc[x]]
             ELSE acc

\* cache.structure = null
NoStructure == [populated |-> FALSE]

\* The structure counting rootJsonFiles for allJsonFiles.
StructureOf_rootOnly(rootContents, allJsonFiles) ==
    [populated      |-> TRUE,
     folders        |-> MapSeq(Folders(rootContents), LAMBDA f : f.name),
     totalJsonFiles |-> Len(RootJsonFiles(rootContents)),
     filesByFolder  |-> FilesByFolder(Folders(rootContents), Len(Folders(rootContents)),
                                      allJsonFiles, Len(RootJsonFiles(rootContents)))]

\* cache.structure = { folders, totalJsonFiles, filesByFolder }
StructureOf(rootContents, allJsonFiles) ==
    [populated      |-> TRUE,
     folders        |-> MapSeq(Folders(rootContents), LAMBDA f : f.name),
     totalJsonFiles |-> Len(allJsonFiles),
     filesByFolder  |-> FilesByFolder(Folders(rootContents), Len(Folders(rootContents)),
                                      allJsonFiles, Len(RootJsonFiles(rootContents)))]

(***************************************************************************)
(* The display name of a file (variant 2), on characters.                  *)
(***************************************************************************)
LowerLetters == <<"a", "b", "c", "d", "e", "f", "g", "h", "i", "j", "k", "l", "m",
                  "n", "o", "p", "q", "r", "s", "t", "u", "v", "w", "x", "y", "z">>
UpperLetters == <<"A", "B", "C", "D", "E", "F", "G", "H", "I", "J", "K", "L", "M",
                  "N", "O", "P", "Q", "R", "S", "T", "U", "V", "W", "X", "Y", "Z">>
Digits == {"0", "1", "2", "3", "4", "5", "6", "7", "8", "9"}

\* The position of character c in the alphabet `letters`, 0 when it is not there.
LetterIndex(letters, c) ==
    IF \E i \in 1..Len(letters) : letters[i] = c
    THEN CHOOSE i \in 1..Len(letters) : letters[i] = c
    ELSE 0

\* String.prototype.toUpperCase / toLowerCase
ToUpperCase(w) ==
    [i \in 1..Len(w) |->
        IF LetterIndex(LowerLetters, w[i]) # 0
        THEN UpperLetters[LetterIndex(LowerLetters, w[i])] ELSE w[i]]
ToLowerCase(w) ==
    [i \in 1..Len(w) |->
        IF LetterIndex(UpperLetters, w[i]) # 0
        THEN LowerLetters[LetterIndex(UpperLetters, w[i])] ELSE w[i]]

\* String.prototype.indexOf, counted from 1; 0 when `sub` does not occur.
IndexOf(str, sub) ==
    LET at == {i \in 1..(Len(str) - Len(sub) + 1) : SubSeq(str, i, i + Len(sub) - 1) = sub}
    IN  IF at = {} THEN 0 ELSE CHOOSE i \in at : \A j \in at : i <= j

\* String.prototype.replace with a string pattern: the first occurrence only.
ReplaceFirst(str, sub, with) ==
    LET i == IndexOf(str, sub)
    IN  IF i = 0 THEN str
        ELSE SubSeq(str, 1, i - 1) \o with \o SubSeq(str, i + Len(sub), Len(str))

DotJson == <<".", "j", "s", "o", "n">>

\* file.name.replace('.json', '')
Stem(fileName) == ReplaceFirst(fileName, DotJson, <<>>)

\* The number of digits str starts with.
RECURSIVE LeadingDigits(_)
LeadingDigits(str) ==
    IF Len(str) > 0 /\ Head(str) \in Digits THEN 1 + LeadingDigits(Tail(str)) ELSE 0

\* displayName.replace(/^\d+[-_]/, '')
StripLeadingNumber(str) ==
    LET n == LeadingDigits(str)
    IN  IF n >= 1 /\ Len(str) > n /\ str[n + 1] \in {"-", "_"}
        THEN SubSeq(str, n + 2, Len(str))
        ELSE str

\* displayName.replace(/[_-]/g, ' ')
ReplaceSeparators(str) ==
    [i \in 1..Len(str) |-> IF str[i] \in {"_", "-"} THEN " " ELSE str[i]]

\* String.prototype.split(' '): the pieces between single spaces, empty ones kept.
RECURSIVE Split(_)
Split(str) ==
    LET i == IndexOf(str, <<" ">>)
    IN  IF i = 0 THEN <<str>>
        ELSE <<SubSeq(str, 1, i - 1)>> \o Split(SubSeq(str, i + 1, Len(str)))

\* Array.prototype.join(' ')
RECURSIVE Join(_)
Join(words) ==
    IF Len(words) = 0 THEN <<>>
    ELSE IF Len(words) = 1 THEN words[1]
    ELSE words[1] \o <<" ">> \o Join(Tail(words))

\* const acronyms = [...]
Acronyms ==
    { <<"H", "T", "T", "P">>,
      <<"H", "T", "T", "P", "S">>,
      <<"A", "P", "I">>,
      <<"U", "R", "L">>,
      <<"J", "S", "O", "N">>,
      <<"X", "M", "L">>,
      <<"R", "S", "S">>,
      <<"A", "I">>,
      <<"M", "L">>,
      <<"S", "Q", "L">>,
      <<"P", "D", "F">>,
      <<"C", "S", "V">>,
      <<"F", "T", "P">>,
      <<"S", "M", "T", "P">>,
      <<"I", "M", "A", "P">>,
      <<"O", "A", "u", "t", "h">>,
      <<"J", "W", "T">>,
      <<"R", "E", "S", "T">>,
      <<"S", "O", "A", "P">>,
      <<"A", "W", "S">>,
      <<"G", "C", "P">> }

\* The special cases of the map callback: the spelling returned for a word
\* whose lowercase form is `lower`, <<>> when it is no special case.
SpecialCase(lower) ==
    CASE lower = <<"n", "8", "n">>                          -> <<"n", "8", "n">>
      [] lower = <<"g", "i", "t", "h", "u", "b">>           -> <<"G", "i", "t", "H", "u", "b">>
      [] lower = <<"g", "i", "t", "l", "a", "b">>           -> <<"G", "i", "t", "L", "a", "b">>
      [] lower = <<"l", "i", "n", "k", "e", "d", "i", "n">> -> <<"L", "i", "n", "k", "e", "d", "I", "n">>
      [] lower = <<"y", "o", "u", "t", "u", "b", "e">>      -> <<"Y", "o", "u", "T", "u", "b", "e">>
      [] lower = <<"f", "a", "c", "e", "b", "o", "o", "k">> -> <<"F", "a", "c", "e", "b", "o", "o", "k">>
      [] lower = <<"i", "n", "s", "t", "a", "g", "r", "a", "m">>
                                                            -> <<"I", "n", "s", "t", "a", "g", "r", "a", "m">>
      [] lower = <<"w", "h", "a", "t", "s", "a", "p", "p">> -> <<"W", "h", "a", "t", "s", "A", "p", "p">>
      [] OTHER                                              -> <<>>

\* word.charAt(0).toUpperCase() + word.slice(1).toLowerCase()
Capitalize(word) ==
    IF Len(word) = 0 THEN <<>>
    ELSE ToUpperCase(<<word[1]>>) \o ToLowerCase(Tail(word))

\* The map callback without the acronym test.
SmartWord_noAcronyms(word) ==
    IF SpecialCase(ToLowerCase(word)) # <<>> THEN SpecialCase(ToLowerCase(word))
    ELSE Capitalize(word)

\* The callback of displayName.split(' ').map(word => ...).
SmartWord(word) ==
    LET upperWord == ToUpperCase(word)
    IN  IF upperWord \in Acronyms THEN upperWord
        ELSE IF SpecialCase(ToLowerCase(word)) # <<>> THEN SpecialCase(ToLowerCase(word))
        ELSE Capitalize(word)

\* displayName.replace(/\s+/g, ' ')
RECURSIVE CollapseSpaces(_)
CollapseSpaces(str) ==
    IF Len(str) = 0 THEN <<>>
    ELSE IF Head(str) = " " /\ Len(str) > 1 /\ str[2] = " " THEN CollapseSpaces(Tail(str))
    ELSE <<Head(str)>> \o CollapseSpaces(Tail(str))

\* String.prototype.trim
RECURSIVE Trim(_)
Trim(str) ==
    IF Len(str) > 0 /\ Head(str) = " " THEN Trim(Tail(str))
    ELSE IF Len(str) > 0 /\ str[Len(str)] = " " THEN Trim(SubSeq(str, 1, Len(str) - 1))
    ELSE str

\* let displayName = ...: the five statements of the map callback, in order.
DisplayName(fileName) ==
    LET stripped == StripLeadingNumber(Stem(fileName))
        spaced   == ReplaceSeparators(stripped)
        words    == Split(spaced)
        smart    == Join([i \in 1..Len(words) |-> SmartWord(words[i])])
    IN  Trim(CollapseSpaces(smart))

\* name: displayName || file.name.replace('.json', '')
SummaryName(fileName) ==
    IF DisplayName(fileName) # <<>> THEN DisplayName(fileName) ELSE Stem(fileName)

\* File names the derivation is exercised on: an optional leading number, up
\* to MaxWords words (acronyms, special cases, plain words, in mixed case, a
\* word holding ".json", the empty word for doubled and dangling separators)
\* joined by one separator, and the suffix; and one longer name.
NameWords ==
    { <<"S", "e", "n", "d">>,
      <<"H", "T", "T", "P">>,
      <<"R", "e", "q", "u", "e", "s", "t">>,
      <<"G", "I", "T", "H", "U", "B">>,
      <<"o", "p", "e", "n", "a", "i">>,
      <<"o", "a", "u", "t", "h">>,
      <<"N", "8", "n">>,
      <<"a", ".", "j", "s", "o", "n">>,
      <<>> }
NamePrefixes == {<<>>, <<"0", "0", "0", "7", "_">>, <<"1", "2", "-">>}
NameSeparators == {"_", "-"}

RECURSIVE JoinWith(_, _)
JoinWith(words, sep) ==
    IF Len(words) = 0 THEN <<>>
    ELSE IF Len(words) = 1 THEN words[1]
    ELSE words[1] \o <<sep>> \o JoinWith(Tail(words), sep)

\* "linkedin_post_scheduler.json"
LinkedinPostSchedulerJson ==
    <<"l", "i", "n", "k", "e", "d", "i", "n", "_", "p", "o", "s", "t", "_",
      "s", "c", "h", "e", "d", "u", "l", "e", "r", ".", "j", "s", "o", "n">>

FileNames ==
    {LinkedinPostSchedulerJson} \cup
    { prefix \o JoinWith(ws, sep) \o DotJson :
        prefix \in NamePrefixes, sep \in NameSeparators,
        ws \in UNION {[1..n -> NameWords] : n \in 0..MaxWords} }

(***************************************************************************)
(* Summaries.                                                              *)
(***************************************************************************)
\* description: `Workflow: ${displayName}` of a file, or a text taken from the
\* fetched document.
DefaultDescription(fileName) == [from |-> "filename", text |-> fileName]
DocText(t) == [from |-> "document", text |-> t]

\* The names of the files of the layouts.
LayoutFileNames ==
    UNION { {l.root[i].name : i \in {j \in 1..Len(l.root) : l.root[j].type = "file"}}
            \cup UNION { {l.dirs[d][i].name :
                             i \in {j \in 1..Len(l.dirs[d]) : l.dirs[d][j].type = "file"}} :
                         d \in DOMAIN l.dirs }
          : l \in {Layouts[k] : k \in 1..Len(Layouts)} }

\* name of a summary, per file name: variant 2, variant 1.
SummaryNames == [n \in LayoutFileNames |-> SummaryName(Chars(n))]
StemNames == [n \in LayoutFileNames |-> Stem(Chars(n))]

\* Variant 2: jsonFiles.map(file => ({...})), content not fetched.
Normalize(file) ==
    [name              |-> SummaryNames[file.name],
     filename          |-> file.name,
     folder            |-> IF file.folder = "" THEN "root" ELSE file.folder,
     path              |-> file.path,
     download_url      |-> file.path,
     workflow          |-> NoDoc,
     nodes_count       |-> 0,
     connections_count |-> 0,
     description       |-> DefaultDescription(file.name)]

\* Variant 1: the summary built from a file and its fetched content.
NormalizeV1(file) ==
    LET workflow == Content(file.path)
    IN  [name              |-> StemNames[file.name],
         filename          |-> file.name,
         folder            |-> "",
         path              |-> "",
         download_url      |-> file.path,
         workflow          |-> workflow,
         nodes_count       |-> IF workflow.hasNodes THEN workflow.nodes ELSE 0,
         connections_count |-> IF workflow.hasConnections THEN workflow.connections ELSE 0,
         description       |-> DocText(workflow.description)]

\* Variant 1: response.data.filter(file => file.name.endsWith('.json') && file.type === 'file')
JsonFilesV1(rootContents) ==
    SelectSeq(rootContents, LAMBDA file : EndsWith(file.name, ".json") /\ file.type = "file")

\* ApplyContent without `workflow.workflow = contentResponse.data`.
ApplyContent_noStore(summary, data) ==
    [summary EXCEPT
        !.nodes_count       = IF data.hasNodes THEN data.nodes ELSE 0,
        !.connections_count = IF data.hasConnections THEN data.connections ELSE 0]

\* Variant 2, the lazy fetch answered: the summary mutated in place.
ApplyContent(summary, data) ==
    [summary EXCEPT
        !.workflow          = data,
        !.nodes_count       = IF data.hasNodes THEN data.nodes ELSE 0,
        !.connections_count = IF data.hasConnections THEN data.connections ELSE 0,
        !.description       = IF data.name # "" THEN DocText(data.name)
                              ELSE IF data.description # "" THEN DocText(data.description)
                              ELSE summary.description]

\* The catch of the lazy fetch overwriting the summary with a placeholder.
OnContentError_placeholder(summary) ==
    [summary EXCEPT !.nodes_count = 0, !.connections_count = 0,
                    !.description = DocText("Error loading workflow")]

\* Variant 2, the lazy fetch threw: catch (error) { console.error(...) }, the
\* summary as it was.
OnContentError(summary) == summary

\* find comparing w.path instead of w.filename.
FindWorkflow_byPath(workflows, filename) ==
    LET hits == {i \in 1..Len(workflows) : workflows[i].path = filename}
    IN  IF hits = {} THEN 0 ELSE CHOOSE i \in hits : \A j \in hits : i <= j

\* workflows.find(w => w.filename === req.params.filename): the index of the
\* first match, 0 for undefined.
FindWorkflow(workflows, filename) ==
    LET hits == {i \in 1..Len(workflows) : workflows[i].filename = filename}
    IN  IF hits = {} THEN 0 ELSE CHOOSE i \in hits : \A j \in hits : i <= j

(***************************************************************************)
(* The cache.                                                              *)
(***************************************************************************)
\* The freshness test with <= for <.
IsFresh_inclusive(c, t) == c.data # Null /\ (t - c.timestamp) <= CACHE_DURATION

\* cache.data && (now - cache.timestamp) < CACHE_DURATION
IsFresh(c, t) == c.data # Null /\ (t - c.timestamp) < CACHE_DURATION

\* The update skipped when the slot is already populated (first writer wins).
CacheUpdate_firstWins(c, workflows, t) ==
    IF c.data # Null THEN c ELSE [c EXCEPT !.data = workflows, !.timestamp = t]

\* The update without `cache.timestamp = now`.
CacheUpdate_keepTimestamp(c, workflows, t) == [c EXCEPT !.data = workflows]

\* cache.data = workflows; cache.timestamp = now;
CacheUpdate(c, workflows, t) == [c EXCEPT !.data = workflows, !.timestamp = t]

\* The clear without `cache.timestamp = 0`.
CacheClear_keepTimestamp(c) == [data |-> Null, timestamp |-> c.timestamp, structure |-> NoStructure]

\* cache.data = null; cache.timestamp = 0; (variant 2: cache.structure = null)
CacheClear(c) == [data |-> Null, timestamp |-> 0, structure |-> NoStructure]

(***************************************************************************)
(* State.                                                                  *)
(***************************************************************************)
VARIABLES
    variant,   \* which server of src/server.js runs: 1 or 2
    layout,    \* the upstream repository: an index into Layouts
    now,       \* Date.now()
    ticks,     \* clock advances so far
    cache,     \* the cache slot: data (a snapshot's name or Null), timestamp, structure
    heap,      \* heap[s]: the array of summaries that request s built (objects, mutated in place)
    reqs,      \* per request: the handler's locals, where it waits, its response, its history
    lastOp,    \* history: "clear" while the latest arrival was POST /api/clear-cache
    writes,    \* history: the requests that executed the cache update, in order
    nameIn,    \* a file name handed to the name derivation, as characters
    nameOut    \* what the derivation made of it: displayName and the summary's name

vars == <<variant, layout, now, ticks, cache, heap, reqs, lastOp, writes, nameIn, nameOut>>

Repo == Layouts[layout]

IdleReq ==
    [kind |-> "none", file |-> "", pc |-> "idle",
     \* fetchWorkflows: const now, and the slot as the freshness check read it
     now |-> 0, seenData |-> Null, seenTs |-> 0,
     \* exploreRepository: calls made, the listing answers, allJsonFiles
     invoked |-> 0, rootFailed |-> FALSE, answers |-> <<>>, files |-> <<>>,
     \* history: the paths this request's listing requests asked for, in order
     listed |-> <<>>,
     \* how fetchWorkflows ended: "hit", "refreshed", "zero", "failed"
     outcome |-> "none", wrote |-> FALSE,
     \* the array fetchWorkflows returned (Null: a fresh []), the summary found in it
     ref |-> Null, idx |-> 0,
     \* the lazy content fetch
     issuedFetch |-> FALSE, fetchOk |-> FALSE,
     \* the response
     status |-> 0, cached |-> FALSE, respStructure |-> NoStructure, respTotal |-> 0,
     \* history
     priorSuccess |-> FALSE, cacheAtResp |-> Null]

\* No name derived yet.
NoName == [done |-> FALSE, display |-> <<>>, name |-> <<>>]

Init ==
    /\ variant \in {1, 2}
    /\ layout \in 1..Len(Layouts)
    /\ now = StartTime
    /\ ticks = 0
    /\ cache = [data |-> Null, timestamp |-> 0, structure |-> NoStructure]
    /\ heap = [s \in Reqs |-> <<>>]
    /\ reqs = [r \in Reqs |-> IdleReq]
    /\ lastOp = "none"
    /\ writes = <<>>
    /\ nameIn = <<>>
    /\ nameOut = NoName

(***************************************************************************)
(* Pieces of the handlers.                                                 *)
(***************************************************************************)
\* The list an array reference stands for.
ListOf(h, ref) == IF ref = Null THEN <<>> ELSE h[ref]

\* `cached` of GET /api/workflows, computed as the response is built.
CachedFlag(c) ==
    IF variant = 2
    THEN (IF c.timestamp # 0 THEN (now - c.timestamp) < CACHE_DURATION ELSE FALSE)
    ELSE (now - c.timestamp) < CACHE_DURATION

\* The response reading cache.structure as it was before the handler's step.
Respond_staleStructure(rq, status, c) ==
    [rq EXCEPT !.pc = "done", !.status = status, !.cached = CachedFlag(c),
               !.cacheAtResp = c.data,
               !.respStructure = IF variant = 2 /\ rq.kind # "get" /\ status = 200
                                 THEN cache.structure ELSE NoStructure]

\* res.json(...) / res.status(...).json(...): the handler is over.
Respond(rq, status, c) ==
    [rq EXCEPT !.pc = "done", !.status = status, !.cached = CachedFlag(c),
               !.cacheAtResp = c.data,
               !.respStructure = IF variant = 2 /\ rq.kind # "get" /\ status = 200
                                 THEN c.structure ELSE NoStructure]

\* The step's effect on the slot, the heap and request r.
Finish(r, rq, c, h) ==
    /\ reqs' = [reqs EXCEPT ![r] = rq]
    /\ cache' = c
    /\ heap' = h
    /\ writes' = IF rq.wrote /\ ~reqs[r].wrote THEN Append(writes, r) ELSE writes

\* The handler after `await fetchWorkflows()` gave it the array `ref`.
AfterFetch(r, rq, ref, c, h) ==
    IF rq.kind = "list"
    THEN Finish(r, Respond([rq EXCEPT !.ref = ref], 200, c), c, h)
    ELSE LET workflows == ListOf(h, ref)
             i == FindWorkflow(workflows, rq.file)
             found == [rq EXCEPT !.ref = ref, !.idx = i,
                          !.priorSuccess = \E q \in Reqs \ {r} :
                              reqs[q].fetchOk /\ reqs[q].ref = ref /\ reqs[q].idx = i]
         IN  IF i = 0
             THEN Finish(r, Respond([rq EXCEPT !.ref = ref], 404, c), c, h)
             ELSE IF variant = 2 /\ ~workflows[i].workflow.present
                  THEN Finish(r, [found EXCEPT !.pc = "content", !.issuedFetch = TRUE], c, h)
                  ELSE Finish(r, Respond(found, 200, c), c, h)

\* fetchWorkflows from its first line to its first await or its return.
EnterFetch(r, rq0) ==
    LET rq == [rq0 EXCEPT !.now = now, !.seenData = cache.data, !.seenTs = cache.timestamp]
    IN  IF IsFresh(cache, now)
        THEN AfterFetch(r, [rq EXCEPT !.outcome = "hit"], cache.data, cache, heap)
        ELSE Finish(r, [rq EXCEPT !.pc = "root", !.invoked = rq.invoked + 1,
                                  !.listed = <<RootPath>>], cache, heap)

\* The fetched document stored on the summary at the same place of the array
\* the slot holds now, when it holds one.
FetchTarget_current(rq, c, h) ==
    IF c.data # Null /\ rq.idx <= Len(h[c.data]) THEN c.data ELSE rq.ref

\* The array whose summary the lazy fetch mutates: `workflow` is the object the
\* handler found before the await, an element of the array fetchWorkflows
\* returned to it, whatever the slot holds by now.
FetchTarget(rq, c, h) == rq.ref

\* The catch answering with the slot's (stale) array instead of [].
FetchFailed_stale(c) == c.data

\* Variant 2: catch (error) { ...; return []; } of fetchWorkflows: a fresh empty
\* array, whatever the slot holds.
FetchFailed(c) == Null

\* A request may arrive once the requests numbered below it have.
Arrives(r) == reqs[r].pc = "idle" /\ \A q \in Reqs : q < r => reqs[q].pc # "idle"

\* Variant 2: exploreRepository threw (the root listing failed).
ExploreThrew(r, rq0) ==
    LET rq == [rq0 EXCEPT !.rootFailed = TRUE, !.outcome = "failed"]
    IN  IF rq.kind = "structure"
        THEN Finish(r, Respond(rq, 500, cache), cache, heap)
        ELSE AfterFetch(r, rq, FetchFailed(cache), cache, heap)

\* Variant 2: exploreRepository returned rq.files, having stored cache.structure;
\* then the rest of fetchWorkflows and of the handler, up to the next await.
ExploreReturned(r, rq) ==
    LET c1 == [cache EXCEPT !.structure = StructureOf(Repo.root, rq.files)]
    IN  IF rq.kind = "structure"
        THEN Finish(r, [Respond(rq, 200, c1) EXCEPT !.respTotal = Len(rq.files)], c1, heap)
        ELSE IF Len(rq.files) = 0
        THEN AfterFetch(r, [rq EXCEPT !.outcome = "zero"], Null, c1, heap)
        ELSE AfterFetch(r, [rq EXCEPT !.outcome = "refreshed", !.wrote = TRUE], r,
                        CacheUpdate(c1, r, rq.now),
                        [heap EXCEPT ![r] = MapSeq(rq.files, Normalize)])

(***************************************************************************)
(* Actions.                                                                *)
(***************************************************************************)
\* GET /api/workflows arrives.
ListWorkflows(r) ==
    /\ Arrives(r)
    /\ EnterFetch(r, [reqs[r] EXCEPT !.kind = "list"])
    /\ lastOp' = "request"
    /\ UNCHANGED <<nameIn, nameOut, variant, layout, now, ticks>>

\* GET /api/workflow/:filename arrives.
GetWorkflow(r, filename) ==
    /\ Arrives(r)
    /\ EnterFetch(r, [reqs[r] EXCEPT !.kind = "get", !.file = filename])
    /\ lastOp' = "request"
    /\ UNCHANGED <<nameIn, nameOut, variant, layout, now, ticks>>

\* GET /api/structure arrives (variant 2): exploreRepository, whatever the cache holds.
GetStructure(r) ==
    /\ variant = 2
    /\ Arrives(r)
    /\ Finish(r, [reqs[r] EXCEPT !.kind = "structure", !.pc = "root", !.invoked = 1,
                                 !.listed = <<RootPath>>,
                                 !.now = now, !.seenData = cache.data, !.seenTs = cache.timestamp],
              cache, heap)
    /\ lastOp' = "request"
    /\ UNCHANGED <<nameIn, nameOut, variant, layout, now, ticks>>

\* Variant 2: the root listing answers.
RootAnswer(r, ok) ==
    /\ variant = 2
    /\ reqs[r].pc = "root"
    /\ IF ~ok
       THEN ExploreThrew(r, reqs[r])
       ELSE LET rq == [reqs[r] EXCEPT !.files = RootJsonFiles(Repo.root)]
            IN  IF Len(Folders(Repo.root)) = 0
                THEN ExploreReturned(r, rq)
                ELSE Finish(r, [rq EXCEPT !.pc = "folder",
                                          !.listed = Append(@, ListingPath(Folders(Repo.root)[1]))],
                            cache, heap)
    /\ UNCHANGED <<nameIn, nameOut, variant, layout, now, ticks, lastOp>>

\* Variant 2: the listing of the next folder answers.
FolderAnswer(r, answer) ==
    /\ variant = 2
    /\ reqs[r].pc = "folder"
    /\ LET folders == Folders(Repo.root)
           k  == Len(reqs[r].answers) + 1
           rq == [reqs[r] EXCEPT
                     !.files = AfterFolder(@, folders[k], answer, Repo.dirs),
                     !.answers = Append(@, answer)]
       IN  IF k = Len(folders)
           THEN ExploreReturned(r, rq)
           ELSE Finish(r, [rq EXCEPT !.listed = Append(@, ListingPath(folders[k + 1]))],
                       cache, heap)
    /\ UNCHANGED <<nameIn, nameOut, variant, layout, now, ticks, lastOp>>

\* Variant 2: the lazy content fetch answers.
ContentAnswer(r, ok) ==
    /\ variant = 2
    /\ reqs[r].pc = "content"
    /\ LET rq == reqs[r]
           s  == FetchTarget(rq, cache, heap)
           h  == IF ok
                 THEN [heap EXCEPT ![s][rq.idx] = ApplyContent(@, Content(@.download_url))]
                 ELSE [heap EXCEPT ![s][rq.idx] = OnContentError(@)]
       IN  Finish(r, Respond([rq EXCEPT !.fetchOk = ok], 200, cache), cache, h)
    /\ UNCHANGED <<nameIn, nameOut, variant, layout, now, ticks, lastOp>>

\* Variant 1: the root listing answers.
RootAnswerV1(r, ok) ==
    /\ variant = 1
    /\ reqs[r].pc = "root"
    /\ IF ~ok
       THEN Finish(r, Respond([reqs[r] EXCEPT !.rootFailed = TRUE, !.outcome = "failed"],
                              500, cache), cache, heap)
       ELSE LET rq == [reqs[r] EXCEPT !.files = JsonFilesV1(Repo.root)]
            IN  IF Len(rq.files) = 0
                THEN AfterFetch(r, [rq EXCEPT !.outcome = "zero", !.wrote = TRUE], r,
                                CacheUpdate(cache, r, rq.now), [heap EXCEPT ![r] = <<>>])
                ELSE Finish(r, [rq EXCEPT !.pc = "contents"], cache, heap)
    /\ UNCHANGED <<nameIn, nameOut, variant, layout, now, ticks, lastOp>>

\* Variant 1: Promise.all settles; the files in `failed` (indices of jsonFiles)
\* could not be fetched and are filtered out.
ContentsAnswerV1(r, failed) ==
    /\ variant = 1
    /\ reqs[r].pc = "contents"
    /\ LET rq == reqs[r]
           valid == SelectSeq(MapSeq([i \in 1..Len(rq.files) |-> [i |-> i, file |-> rq.files[i]]],
                                     LAMBDA e : IF e.i \in failed THEN [filename |-> ""]
                                                ELSE NormalizeV1(e.file)),
                              LAMBDA w : w.filename # "")
       IN  AfterFetch(r, [rq EXCEPT !.outcome = "refreshed", !.wrote = TRUE], r,
                      CacheUpdate(cache, r, rq.now), [heap EXCEPT ![r] = valid])
    /\ UNCHANGED <<nameIn, nameOut, variant, layout, now, ticks, lastOp>>

\* POST /api/clear-cache.
ClearCache ==
    /\ cache' = CacheClear(cache)
    /\ lastOp' = "clear"
    /\ UNCHANGED <<nameIn, nameOut, variant, layout, now, ticks, heap, reqs, writes>>

\* Time passes.
Tick(d) ==
    /\ ticks < MaxTicks
    /\ now' = now + d
    /\ ticks' = ticks + 1
    /\ UNCHANGED <<nameIn, nameOut, variant, layout, cache, heap, reqs, lastOp, writes>>

Next ==
    \/ \E r \in Reqs : ListWorkflows(r)
    \/ \E r \in Reqs, f \in Asked : GetWorkflow(r, f)
    \/ \E r \in Reqs : GetStructure(r)
    \/ \E r \in Reqs, ok \in BOOLEAN : RootAnswer(r, ok)
    \/ \E r \in Reqs, a \in {"ok", "nonarray", "fail"} : FolderAnswer(r, a)
    \/ \E r \in Reqs, ok \in BOOLEAN : ContentAnswer(r, ok)
    \/ \E r \in Reqs, ok \in BOOLEAN : RootAnswerV1(r, ok)
    \/ \E r \in Reqs : \E failed \in SUBSET (1..Len(reqs[r].files)) : ContentsAnswerV1(r, failed)
    \/ ClearCache
    \/ \E d \in TickSteps : Tick(d)

Spec == Init /\ [][Next]_vars

(***************************************************************************)
(* The name derivation on its own: a file name that passed the '.json'     *)
(* filter, and the map callback of fetchWorkflows applied to it.           *)
(***************************************************************************)
InitNames ==
    /\ variant = 2
    /\ layout = 1
    /\ now = StartTime
    /\ ticks = 0
    /\ cache = [data |-> Null, timestamp |-> 0, structure |-> NoStructure]
    /\ heap = [s \in Reqs |-> <<>>]
    /\ reqs = [r \in Reqs |-> IdleReq]
    /\ lastOp = "none"
    /\ writes = <<>>
    /\ nameIn \in FileNames
    /\ nameOut = NoName

\* jsonFiles.map(file => ...) reaching the file: displayName and name.
DeriveName ==
    /\ ~nameOut.done
    /\ nameOut' = [done |-> TRUE, display |-> DisplayName(nameIn), name |-> SummaryName(nameIn)]
    /\ UNCHANGED <<nameIn, variant, layout, now, ticks, cache, heap, reqs, lastOp, writes>>

NextNames == DeriveName

SpecNames == InitNames /\ [][NextNames]_vars

(***************************************************************************)
(* Properties.                                                             *)
(***************************************************************************)
Started(r) == reqs[r].pc # "idle"
Done(r) == reqs[r].pc = "done"

\* C1: a GET /api/workflows whose freshness check finds the slot populated and
\* younger than CACHE_DURATION answers with cache.data and makes no upstream
\* listing request; one that finds it unpopulated, or CACHE_DURATION old or
\* older, invokes the Explorer (once).
C1_FreshnessDecidesExplorer ==
    \A r \in Reqs :
        reqs[r].kind = "list" =>
            IF reqs[r].seenData # Null /\ reqs[r].now - reqs[r].seenTs < CACHE_DURATION
            THEN /\ reqs[r].invoked = 0
                 /\ Done(r) /\ reqs[r].status = 200
                 /\ reqs[r].ref = reqs[r].seenData
            ELSE reqs[r].invoked = 1

\* C1 witness: a listing served from the fresh slot another request populated.
C1_Witness_Hit ==
    \E r \in Reqs :
        /\ reqs[r].kind = "list" /\ Done(r)
        /\ reqs[r].seenData # Null /\ reqs[r].seenData # r
        /\ reqs[r].now - reqs[r].seenTs < CACHE_DURATION
        /\ reqs[r].invoked = 0

\* C2 (as claimed): a GET /api/workflows that is the first arrival after a
\* POST /api/clear-cache always invokes the Explorer, whatever was in flight
\* when the clear ran.
C2_ClearThenListExplores ==
    [][lastOp = "clear" =>
         \A r \in Reqs :
             (reqs[r].pc = "idle" /\ reqs'[r].kind = "list") => reqs'[r].invoked = 1]_vars

\* C3 (as claimed): when the root listing fails, GET /api/workflows answers
\* with a success payload, never HTTP 500.
C3_ListNeverHardFails ==
    \A r \in Reqs :
        (reqs[r].kind = "list" /\ reqs[r].rootFailed) => (Done(r) /\ reqs[r].status = 200)

\* The content fetches issued for summary i of snapshot s.
FetchesFor(s, i) ==
    {r \in Reqs : reqs[r].issuedFetch /\ reqs[r].ref = s /\ reqs[r].idx = i}

\* C4 (as claimed): within one snapshot at most one content fetch is issued
\* for a filename.
C4_AtMostOneFetch ==
    \A s \in Reqs : \A i \in 1..Len(heap[s]) : Cardinality(FetchesFor(s, i)) <= 1

\* C4 (amended): once a content fetch for a summary has succeeded, a
\* getWorkflow that looks the summary up afterwards in the same snapshot issues
\* no content fetch and answers with the stored document.
C4_StoredContentIsReused ==
    \A r \in Reqs :
        (reqs[r].kind = "get" /\ reqs[r].priorSuccess) =>
            /\ ~reqs[r].issuedFetch
            /\ Done(r) /\ reqs[r].status = 200
            /\ heap[reqs[r].ref][reqs[r].idx].workflow = Content(heap[reqs[r].ref][reqs[r].idx].download_url)

\* C4 witness: a second getWorkflow of a filename whose content an earlier one
\* fetched into the same snapshot.
C4_Witness_Reuse ==
    \E r \in Reqs :
        /\ reqs[r].kind = "get" /\ reqs[r].priorSuccess /\ Done(r)
        /\ \E q \in Reqs \ {r} : reqs[q].fetchOk /\ reqs[q].file = reqs[r].file

\* C5: getWorkflow answers 404 exactly when the listing its fetchWorkflows call
\* returned holds no summary with the requested filename; otherwise the
\* summary it found (and returns) has that filename.
C5_NotFoundIffAbsent ==
    \A r \in Reqs :
        (reqs[r].kind = "get" /\ reqs[r].pc \in {"content", "done"} /\ reqs[r].status # 500) =>
            LET listing == ListOf(heap, reqs[r].ref)
                present == \E i \in 1..Len(listing) : listing[i].filename = reqs[r].file
            IN  /\ (reqs[r].status = 404) <=> (Done(r) /\ ~present)
                /\ present => (reqs[r].idx \in 1..Len(listing)
                               /\ listing[reqs[r].idx].filename = reqs[r].file)

\* C5 witness: one getWorkflow answered 404 and another 200 in the same run.
C5_Witness_Both ==
    \E r, q \in Reqs :
        /\ reqs[r].kind = "get" /\ Done(r) /\ reqs[r].status = 404
        /\ reqs[q].kind = "get" /\ Done(q) /\ reqs[q].status = 200
        /\ heap[reqs[q].ref][reqs[q].idx].filename = reqs[q].file

\* The JSON files a listing of top-level folder k holds (before tagging).
JsonIn(k) ==
    SelectSeq(Repo.dirs[Folders(Repo.root)[k].path],
              LAMBDA e : e.type = "file" /\ EndsWith(e.name, ".json"))

RECURSIVE SumOk(_, _)
SumOk(answers, k) ==
    IF k = 0 THEN 0
    ELSE SumOk(answers, k - 1) + (IF answers[k] = "ok" THEN Len(JsonIn(k)) ELSE 0)

PathsOf(files) == {files[i].path : i \in 1..Len(files)}

\* Request r ran exploreRepository past the root listing.
Walked(r) ==
    variant = 2 /\ reqs[r].invoked = 1 /\ reqs[r].pc \notin {"idle", "root"} /\ ~reqs[r].rootFailed

\* C6: whichever folder listings fail, the walk keeps going: what it has
\* collected is the root-level matches plus the JSON files of every folder
\* whose listing succeeded (the count is the sum), each tagged with its folder;
\* and once every folder has answered the exploration has returned, not thrown.
C6_FolderFailureDoesNotAbort ==
    \A r \in Reqs :
        Walked(r) =>
            LET answers == reqs[r].answers
                files   == reqs[r].files
                oks     == {k \in 1..Len(answers) : answers[k] = "ok"}
            IN  /\ Len(files) = Len(RootJsonFiles(Repo.root)) + SumOk(answers, Len(answers))
                /\ PathsOf(files) = PathsOf(RootJsonFiles(Repo.root))
                                    \cup UNION {PathsOf(JsonIn(k)) : k \in oks}
                /\ \A k \in oks : \A i \in 1..Len(files) :
                       files[i].path \in PathsOf(JsonIn(k))
                           => files[i].folder = Folders(Repo.root)[k].name
                /\ Len(answers) = Len(Folders(Repo.root)) =>
                       /\ reqs[r].outcome # "failed"
                       /\ reqs[r].kind = "structure" =>
                              (reqs[r].status = 200 /\ reqs[r].respTotal = Len(files))
                       /\ reqs[r].kind # "structure" =>
                              (reqs[r].outcome = "zero") = (Len(files) = 0)

\* C6 witness: an exploration in which one folder's listing failed and
\* another's succeeded, returning the root file and the good folder's file.
C6_Witness_PartialFailure ==
    \E r \in Reqs :
        /\ Walked(r)
        /\ Len(reqs[r].answers) = Len(Folders(Repo.root))
        /\ \E j, k \in 1..Len(reqs[r].answers) :
               reqs[r].answers[j] = "fail" /\ reqs[r].answers[k] = "ok" /\ Len(JsonIn(k)) > 0
        /\ Len(reqs[r].files) > Len(RootJsonFiles(Repo.root))
        /\ Len(RootJsonFiles(Repo.root)) > 0

\* C7 (as claimed): in the state right after a refresh writes the slot, the
\* slot is fresh: now - cache.timestamp < CACHE_DURATION.
C7_FreshRightAfterReplace ==
    [][writes' # writes => (now' - cache'.timestamp) < CACHE_DURATION]_vars

\* C8: there is no single-flight barrier.  Every request whose freshness check
\* missed has invoked the Explorer itself, whoever else was exploring; and the
\* slot, while populated, holds the array of the request that wrote last.
C8_NoSingleFlightLastWriterWins ==
    /\ \A r \in Reqs :
           (reqs[r].kind \in {"list", "get"} /\ Started(r) /\ reqs[r].outcome # "hit")
               => reqs[r].invoked = 1
    /\ cache.data # Null => (writes # <<>> /\ cache.data = writes[Len(writes)])
    /\ \A r \in Reqs : reqs[r].wrote =>
           \E k \in 1..Len(writes) : writes[k] = r

\* C8 witness: two requests both missed on the empty slot before either wrote,
\* both explored and wrote different lists, and the slot holds the array of
\* the one that wrote last (which arrived first).
C8_Witness_Race ==
    /\ Len(writes) = 2 /\ writes[1] = 2 /\ writes[2] = 1
    /\ reqs[1].seenData = Null /\ reqs[2].seenData = Null
    /\ reqs[1].invoked = 1 /\ reqs[2].invoked = 1
    /\ reqs[1].kind = "list" /\ reqs[2].kind = "list"
    /\ heap[1] # heap[2]
    /\ cache.data = 1

\* The array a response carries and the slot's array are the same list.
SameList(a, b) == a = b \/ (ListOf(heap, a) = <<>> /\ ListOf(heap, b) = <<>>)

\* C9 (as claimed): whatever the outcome (hit, refresh, refresh finding zero
\* files, failed refresh), the list in a GET /api/workflows response is
\* cache.data as it stands when the response is produced.
C9_ResponseIsCacheAlways ==
    \A r \in Reqs :
        (reqs[r].kind = "list" /\ Done(r) /\ reqs[r].status = 200)
            => SameList(reqs[r].ref, reqs[r].cacheAtResp)

\* C9 (amended): the list in the response is the slot's array when the request
\* was a hit or its refresh wrote the slot; when its refresh found zero files
\* (variant 2) or failed, the response carries a fresh empty list, whatever
\* the slot holds.
C9_ResponseIsCacheOrEmpty ==
    \A r \in Reqs :
        (reqs[r].kind = "list" /\ Done(r) /\ reqs[r].status = 200) =>
            IF reqs[r].outcome = "hit" \/ reqs[r].wrote
            THEN reqs[r].ref # Null /\ reqs[r].ref = reqs[r].cacheAtResp
            ELSE /\ reqs[r].outcome \in {"zero", "failed"}
                 /\ reqs[r].ref = Null

\* C9 witness: a failed refresh answered with the empty list while the slot
\* still held the stale, non-empty list.
C9_Witness_EmptyOverStale ==
    \E r \in Reqs :
        /\ reqs[r].kind = "list" /\ Done(r) /\ reqs[r].status = 200
        /\ reqs[r].outcome = "failed" /\ reqs[r].ref = Null
        /\ reqs[r].cacheAtResp # Null /\ Len(heap[reqs[r].cacheAtResp]) > 0

\* The step in which request r's fetchWorkflows call, a cache miss, ends.
Completes(r) ==
    /\ reqs[r].kind \in {"list", "get"}
    /\ reqs[r].outcome = "none"
    /\ reqs'[r].outcome \in {"refreshed", "zero", "failed"}

\* The step replaces the slot with request r's newly built list.
Replaces(r) ==
    /\ cache'.data = r
    /\ cache'.timestamp = reqs[r].now
    /\ variant = 2 => heap'[r] = MapSeq(reqs'[r].files, Normalize)

SlotUntouched == cache'.data = cache.data /\ cache'.timestamp = cache.timestamp

\* C10 (as claimed): every miss whose exploration succeeds, zero files
\* included, replaces cache.data and cache.timestamp; one whose exploration
\* fails leaves both as they were.
C10_EverySuccessReplaces ==
    [][\A r \in Reqs :
          Completes(r) =>
              IF reqs'[r].outcome \in {"refreshed", "zero"} THEN Replaces(r) ELSE SlotUntouched]_vars

\* C10 (amended): a miss whose exploration finds at least one file replaces
\* cache.data and cache.timestamp wholesale; in variant 2 one that finds zero
\* files, like one whose exploration fails, leaves both as they were (variant 1
\* writes the empty list).
C10_ReplaceOrLeave ==
    [][\A r \in Reqs :
          Completes(r) =>
              IF reqs'[r].outcome = "refreshed" \/ (variant = 1 /\ reqs'[r].outcome = "zero")
              THEN Replaces(r)
              ELSE SlotUntouched]_vars

\* C10 witness: in variant 2 a refresh found zero files and the slot still
\* holds the list and timestamp of the earlier refresh.
C10_Witness_ZeroLeavesStale ==
    \E r \in Reqs :
        /\ variant = 2
        /\ reqs[r].outcome = "zero" /\ ~reqs[r].wrote
        /\ cache.data # Null /\ cache.data # r
        /\ cache.timestamp = reqs[cache.data].now

\* C11 (as claimed): the `cached` field of a GET /api/workflows response is
\* true exactly when the request was a cache hit, and false when the request
\* itself performed (or attempted) a refresh.
C11_CachedIffHit ==
    \A r \in Reqs :
        (reqs[r].kind = "list" /\ Done(r) /\ reqs[r].status = 200) =>
            (reqs[r].cached <=> reqs[r].outcome = "hit")

\* C12 (as claimed): after any refresh the stored list is as long as the list
\* of candidate JSON entries the refresh discovered; an entry whose content
\* fetch failed is not dropped.
C12_NoCandidateDropped ==
    \A r \in Reqs : reqs[r].wrote => Len(heap[r]) = Len(reqs[r].files)

\* C13 (as claimed): within a cache snapshot no two summaries share a filename,
\* and a getWorkflow(filename) that finds the name returns the last entry
\* discovered under it.
C13_FilenameUniqueLastWins ==
    /\ \A s \in Reqs : \A i, j \in 1..Len(heap[s]) :
           heap[s][i].filename = heap[s][j].filename => i = j
    /\ \A r \in Reqs :
           (reqs[r].kind = "get" /\ reqs[r].idx # 0) =>
               \A j \in 1..Len(heap[reqs[r].ref]) :
                   heap[reqs[r].ref][j].filename = reqs[r].file => j <= reqs[r].idx

\* Files of the repository that lie two or more levels below the root, and the
\* directories that hold them.
NestedDirs == DOMAIN Repo.dirs \ {ListingPath(Folders(Repo.root)[k]) : k \in 1..Len(Folders(Repo.root))}
DeepPaths == UNION {PathsOf(Repo.dirs[d]) : d \in NestedDirs}

\* The exploration of request r has returned (it did not throw on the root).
Explored(r) == reqs[r].invoked = 1 /\ reqs[r].pc \notin {"root", "folder"} /\ ~reqs[r].rootFailed

\* C20: the walk is one level deep.  An exploration lists the root, then the
\* top-level directories in order, one request each, and nothing else; having
\* returned it has listed 1 + (number of top-level directories) paths; it
\* never lists a nested directory, and no file two or more levels below the
\* root is among the files it returns or in a snapshot built from them.
C20_WalkIsOneLevelDeep ==
    \A r \in Reqs :
        (variant = 2 /\ reqs[r].invoked = 1) =>
            LET folders == Folders(Repo.root)
                listed  == reqs[r].listed
            IN  /\ Len(listed) >= 1 /\ listed[1] = RootPath
                /\ Len(listed) <= 1 + Len(folders)
                /\ \A i \in 2..Len(listed) : listed[i] = folders[i - 1].path
                /\ Explored(r) => Len(listed) = 1 + Len(folders)
                /\ \A i \in 1..Len(listed) : listed[i] \notin NestedDirs
                /\ PathsOf(reqs[r].files) \cap DeepPaths = {}
                /\ PathsOf(heap[r]) \cap DeepPaths = {}

\* C20 witness: an exploration that has returned from a repository with a
\* workflow file two levels below the root, the folder above it listed.
C20_Witness_NestedSkipped ==
    \E r \in Reqs :
        /\ variant = 2 /\ Explored(r)
        /\ DeepPaths # {}
        /\ \E k \in 1..Len(reqs[r].answers) :
               /\ reqs[r].answers[k] = "ok"
               /\ \E d \in NestedDirs, i \in 1..Len(Repo.dirs[Folders(Repo.root)[k].path]) :
                      Repo.dirs[Folders(Repo.root)[k].path][i].path = d
        /\ reqs[r].wrote

\* C14 (as claimed): cache.structure is populated only together with
\* cache.data, and then structure.totalJsonFiles is the number of summaries in
\* cache.data.
C14_StructureOnlyWithData ==
    cache.structure.populated =>
        /\ cache.data # Null
        /\ cache.structure.totalJsonFiles = Len(heap[cache.data])

\* This step is the return of request r's exploreRepository.
ExplorationReturns(r) ==
    /\ reqs[r].pc \in {"root", "folder"}
    /\ reqs'[r].pc \notin {"root", "folder"}
    /\ ~reqs'[r].rootFailed

\* C14 (amended): cache.structure is written by every exploration that
\* returns, and only by those and by the clear.  A step that changes it is a
\* clear (structure reset) or the return of some request's exploration, which
\* leaves the structure of that exploration: its folder names and
\* totalJsonFiles = the number of files it collected.  A step that replaces
\* cache.data leaves a structure whose totalJsonFiles is the length of the new
\* cache.data.
C14_StructureFollowsExplorations ==
    [][variant = 2 =>
         /\ cache'.structure # cache.structure =>
                \/ cache' = CacheClear(cache) /\ reqs' = reqs
                \/ \E r \in Reqs :
                       /\ ExplorationReturns(r)
                       /\ cache'.structure.populated
                       /\ cache'.structure.totalJsonFiles = Len(reqs'[r].files)
                       /\ cache'.structure.folders =
                              [k \in 1..Len(Folders(Repo.root)) |-> Folders(Repo.root)[k].name]
         /\ \A r \in Reqs :
                ExplorationReturns(r) =>
                    /\ cache'.structure.populated
                    /\ cache'.structure.totalJsonFiles = Len(reqs'[r].files)
         /\ writes' # writes =>
                /\ cache'.structure.populated
                /\ cache'.structure.totalJsonFiles = Len(heap'[cache'.data])]_vars

\* C14 witness: both populated and describing different explorations, the
\* structure written by a GET /api/structure after the data was.
C14_Witness_StructureAhead ==
    /\ cache.data # Null
    /\ cache.structure.populated
    /\ cache.structure.totalJsonFiles # Len(heap[cache.data])
    /\ \E r \in Reqs : reqs[r].kind = "structure" /\ Done(r) /\ reqs[r].status = 200

\* C15: a lazy content fetch that fails is swallowed.  The step in which
\* request r's fetch fails answers 200 with the summary it found, and changes
\* neither a summary (workflow, nodes_count, connections_count, description
\* included) nor the cache slot.
C15_FailedFetchSwallowed ==
    [][\A r \in Reqs :
           (reqs[r].pc = "content" /\ reqs'[r].pc = "done" /\ ~reqs'[r].fetchOk) =>
               /\ reqs'[r].status = 200
               /\ reqs'[r].ref = reqs[r].ref /\ reqs'[r].idx = reqs[r].idx
               /\ heap'[reqs[r].ref][reqs[r].idx] = heap[reqs[r].ref][reqs[r].idx]
               /\ heap' = heap
               /\ cache' = cache]_vars

\* C15 witness: a getWorkflow answered 200 after its content fetch failed, the
\* summary still without a document and with the description of the refresh.
C15_Witness_FailedFetch ==
    \E r \in Reqs :
        /\ reqs[r].kind = "get" /\ Done(r) /\ reqs[r].status = 200
        /\ reqs[r].issuedFetch /\ ~reqs[r].fetchOk
        /\ ~heap[reqs[r].ref][reqs[r].idx].workflow.present
        /\ heap[reqs[r].ref][reqs[r].idx].nodes_count = 0
        /\ heap[reqs[r].ref][reqs[r].idx].description.from = "filename"

\* C16: every GET /api/structure invokes the Explorer, whatever the cache
\* holds: it lists the root, answers 500 exactly when that listing failed, and
\* otherwise answers with the structure and the file count of its own
\* exploration.
C16_StructureAlwaysExplores ==
    \A r \in Reqs :
        (reqs[r].kind = "structure") =>
            /\ reqs[r].invoked = 1
            /\ Len(reqs[r].listed) >= 1 /\ reqs[r].listed[1] = RootPath
            /\ Done(r) => (reqs[r].status = 500 <=> reqs[r].rootFailed)
            /\ (Done(r) /\ reqs[r].status = 200) =>
                   /\ Len(reqs[r].files) = Len(RootJsonFiles(Repo.root)) + SumOk(reqs[r].answers, Len(reqs[r].answers))
                   /\ Len(reqs[r].answers) = Len(Folders(Repo.root))
                   /\ reqs[r].respTotal = Len(reqs[r].files)
                   /\ reqs[r].respStructure.populated
                   /\ reqs[r].respStructure.totalJsonFiles = Len(reqs[r].files)

\* C16 witness: a GET /api/structure that arrived over a populated, fresh
\* slot explored all the same, and answered with a count of its own that is
\* not the slot's.
C16_Witness_ExploresOverFreshCache ==
    \E r \in Reqs :
        /\ reqs[r].kind = "structure" /\ Done(r) /\ reqs[r].status = 200
        /\ reqs[r].seenData # Null
        /\ reqs[r].now - reqs[r].seenTs < CACHE_DURATION
        /\ reqs[r].invoked = 1
        /\ reqs[r].respTotal # Len(heap[reqs[r].seenData])

\* The words of a cleaned name: its maximal runs of characters other than spaces.
Tokens(str) == SelectSeq(Split(str), LAMBDA w : w # <<>>)

\* The file name without its last five characters, the suffix.
WithoutSuffix(fileName) == SubSeq(fileName, 1, Len(fileName) - Len(DotJson))

\* The brand-name table of the specification: the spelling for a lowercase
\* token, <<>> for a token that is not in the table.
BrandSpelling(lower) ==
    CASE lower = <<"g", "i", "t", "h", "u", "b">>
           -> <<"G", "i", "t", "H", "u", "b">>
      [] lower = <<"g", "i", "t", "l", "a", "b">>
           -> <<"G", "i", "t", "L", "a", "b">>
      [] lower = <<"l", "i", "n", "k", "e", "d", "i", "n">>
           -> <<"L", "i", "n", "k", "e", "d", "I", "n">>
      [] lower = <<"y", "o", "u", "t", "u", "b", "e">>
           -> <<"Y", "o", "u", "T", "u", "b", "e">>
      [] lower = <<"f", "a", "c", "e", "b", "o", "o", "k">>
           -> <<"F", "a", "c", "e", "b", "o", "o", "k">>
      [] lower = <<"i", "n", "s", "t", "a", "g", "r", "a", "m">>
           -> <<"I", "n", "s", "t", "a", "g", "r", "a", "m">>
      [] lower = <<"w", "h", "a", "t", "s", "a", "p", "p">>
           -> <<"W", "h", "a", "t", "s", "A", "p", "p">>
      [] lower = <<"t", "e", "l", "e", "g", "r", "a", "m">>
           -> <<"T", "e", "l", "e", "g", "r", "a", "m">>
      [] lower = <<"d", "i", "s", "c", "o", "r", "d">>
           -> <<"D", "i", "s", "c", "o", "r", "d">>
      [] lower = <<"s", "l", "a", "c", "k">>
           -> <<"S", "l", "a", "c", "k">>
      [] lower = <<"o", "p", "e", "n", "a", "i">>
           -> <<"O", "p", "e", "n", "A", "I">>
      [] lower = <<"a", "n", "t", "h", "r", "o", "p", "i", "c">>
           -> <<"A", "n", "t", "h", "r", "o", "p", "i", "c">>
      [] lower = <<"n", "8", "n">>
           -> <<"n", "8", "n">>
      [] OTHER -> <<>>

\* The tokens for which the server has a special case.
ServerBrands ==
    { <<"n", "8", "n">>,
      <<"g", "i", "t", "h", "u", "b">>,
      <<"g", "i", "t", "l", "a", "b">>,
      <<"l", "i", "n", "k", "e", "d", "i", "n">>,
      <<"y", "o", "u", "t", "u", "b", "e">>,
      <<"f", "a", "c", "e", "b", "o", "o", "k">>,
      <<"i", "n", "s", "t", "a", "g", "r", "a", "m">>,
      <<"w", "h", "a", "t", "s", "a", "p", "p">> }

\* A token as C17 emits it: its uppercase form if that is an acronym, otherwise
\* capitalized.
ClaimedWord(token) ==
    IF ToUpperCase(token) \in Acronyms THEN ToUpperCase(token) ELSE Capitalize(token)

\* The name as C17 derives it: suffix, leading number, separators, tokens.
ClaimedName(fileName) ==
    LET tokens == Tokens(ReplaceSeparators(StripLeadingNumber(WithoutSuffix(fileName))))
    IN  Join([i \in 1..Len(tokens) |-> ClaimedWord(tokens[i])])

\* A token as the amended C17 emits it.
AmendedWord(token) ==
    IF ToUpperCase(token) \in Acronyms THEN ToUpperCase(token)
    ELSE IF ToLowerCase(token) \in ServerBrands THEN BrandSpelling(ToLowerCase(token))
    ELSE Capitalize(token)

\* The tokens of a file name: what is left between separators and spaces once
\* the first ".json" and the leading number are gone.
NameTokens(fileName) == Tokens(ReplaceSeparators(StripLeadingNumber(Stem(fileName))))

SendHTTPRequestJson ==
    <<"0", "0", "0", "7", "_", "S", "e", "n", "d", "_", "H", "T", "T", "P", "_",
      "R", "e", "q", "u", "e", "s", "t", ".", "j", "s", "o", "n">>
SendHTTPRequest ==
    <<"S", "e", "n", "d", " ", "H", "T", "T", "P", " ", "R", "e", "q", "u", "e", "s", "t">>

\* C17 (as claimed): the derived name is the tokens of the file name (suffix
\* and leading number stripped, separators as spaces), each in uppercase if
\* that is an acronym and capitalized otherwise, joined by single spaces.
C17_NameIsAcronymOrCapitalized ==
    nameOut.done => nameOut.display = ClaimedName(nameIn)

\* C17 (amended): the derived name is the tokens of the file name with its
\* first ".json" removed and its leading number stripped, each in uppercase if
\* that is an acronym, in its brand spelling if its lowercase form is one of
\* the server's eight special cases, and capitalized otherwise, joined by
\* single spaces; "0007_Send_HTTP_Request.json" gives "Send HTTP Request".
C17_NameIsAcronymBrandOrCapitalized ==
    nameOut.done =>
        /\ nameOut.display =
               Join([i \in 1..Len(NameTokens(nameIn)) |-> AmendedWord(NameTokens(nameIn)[i])])
        /\ nameIn = SendHTTPRequestJson => nameOut.display = SendHTTPRequest

\* C17 witness: the derivation applied to "0007_Send_HTTP_Request.json".
C17_Witness_SendHTTPRequest ==
    /\ nameOut.done
    /\ nameIn = SendHTTPRequestJson
    /\ nameOut.name = SendHTTPRequest

\* C18 (as claimed): every token of the file name that is no acronym and whose
\* lowercase form is in the brand-name table appears in the derived name in
\* the table's spelling.
C18_BrandSpelling ==
    nameOut.done =>
        LET tokens == NameTokens(nameIn)
            out    == Tokens(nameOut.name)
        IN  \A i \in 1..Len(tokens) :
                (ToUpperCase(tokens[i]) \notin Acronyms
                    /\ BrandSpelling(ToLowerCase(tokens[i])) # <<>>) =>
                    (i <= Len(out) /\ out[i] = BrandSpelling(ToLowerCase(tokens[i])))

\* C19 (as claimed): the name of the summary made from a file name that ends
\* in ".json" is never empty.
C19_NameNeverEmpty ==
    nameOut.done => nameOut.name # <<>>

\* C21 (as claimed): after POST /api/clear-cache the cache stays empty until a
\* request that arrived after the clear refreshes it: as long as the clear is
\* the latest arrival, no step (of a refresh that began before it) leaves
\* cache.data, cache.timestamp or cache.structure populated.
C21_ClearedStaysEmpty ==
    [][(lastOp = "clear" /\ lastOp' = "clear") =>
           /\ cache'.data = Null
           /\ cache'.timestamp = 0
           /\ ~cache'.structure.populated]_vars

\* C22 (as claimed): from one cache write to the next, with no clear in
\* between (the slot is still populated when the second write runs),
\* cache.timestamp does not decrease.
C22_TimestampNeverDecreases ==
    [][(writes' # writes /\ cache.data # Null) => cache'.timestamp >= cache.timestamp]_vars

\* Request r's lazy content fetch answers in this step, and the slot no longer
\* holds the array r found its summary in (it was refreshed or cleared).
LateContentAnswer(r) ==
    /\ reqs[r].pc = "content"
    /\ reqs'[r].pc = "done"
    /\ cache.data # reqs[r].ref

\* C23: a lazy content fetch that answers after the cache was refreshed or
\* cleared changes no summary of the array the slot holds now, and neither
\* cache.data nor cache.timestamp; a successful one stores the document on its
\* summary in the superseded array, and nothing else changes in any array.
C23_LateFetchLandsOnOldSnapshot ==
    [][\A r \in Reqs :
           LateContentAnswer(r) =>
               /\ cache' = cache
               /\ cache.data # Null => heap'[cache.data] = heap[cache.data]
               /\ \A s \in Reqs : \A i \in 1..Len(heap[s]) :
                      (s # reqs[r].ref \/ i # reqs[r].idx) => heap'[s][i] = heap[s][i]
               /\ reqs'[r].fetchOk =>
                      heap'[reqs[r].ref][reqs[r].idx] =
                          ApplyContent(heap[reqs[r].ref][reqs[r].idx],
                                       Content(heap[reqs[r].ref][reqs[r].idx].download_url))]_vars

\* C23 witness: the slot holds a newer array than the one request r found its
\* summary in; r's fetch succeeded and the document is on the old array's
\* summary, while the summary of the same file in the slot's array has none.
C23_Witness_SupersededSnapshot ==
    \E r \in Reqs :
        /\ reqs[r].kind = "get" /\ Done(r) /\ reqs[r].fetchOk
        /\ cache.data # Null /\ cache.data # reqs[r].ref
        /\ heap[reqs[r].ref][reqs[r].idx].workflow.present
        /\ \E j \in 1..Len(heap[cache.data]) :
               /\ heap[cache.data][j].path = heap[reqs[r].ref][reqs[r].idx].path
               /\ ~heap[cache.data][j].workflow.present
        /\ cache.timestamp = reqs[cache.data].now

\* C24: cache.data is null exactly when cache.timestamp is 0, in every state.
\* A step that changes either is a refresh's cache update, which leaves both
\* set (the new array, the refresh's `now`), or a clear, which leaves both
\* reset; the steps of GET /api/structure and of the lazy content fetch change
\* neither.
C24_DataNullIffTimestampZero ==
    /\ [](cache.data = Null <=> cache.timestamp = 0)
    /\ [][/\ (cache'.data # cache.data \/ cache'.timestamp # cache.timestamp) =>
                 \/ /\ writes' # writes
                    /\ cache'.data = writes'[Len(writes')]
                    /\ cache'.timestamp = reqs'[cache'.data].now
                    /\ cache'.timestamp # 0
                 \/ /\ cache' = CacheClear(cache) /\ reqs' = reqs
                    /\ cache'.data = Null /\ cache'.timestamp = 0
          /\ \A r \in Reqs :
                 (reqs'[r] # reqs[r] /\ (reqs'[r].kind = "structure" \/ reqs[r].pc = "content")) =>
                     SlotUntouched]_vars

\* C24 witness: the slot was populated by a refresh and then cleared, and a
\* GET /api/structure has stored a structure since: data null, timestamp 0.
C24_Witness_ClearedAfterWrite ==
    /\ writes # <<>>
    /\ cache.data = Null /\ cache.timestamp = 0
    /\ cache.structure.populated
    /\ \E r \in Reqs : reqs[r].kind = "structure" /\ Done(r) /\ reqs[r].status = 200

\* The sum of the counts of a folder -> count map.
RECURSIVE SumCounts(_, _)
SumCounts(counts, keys) ==
    IF keys = {} THEN 0
    ELSE LET k == CHOOSE x \in keys : TRUE
         IN  counts[k] + SumCounts(counts, keys \ {k})

\* C25 (as claimed): whenever cache.structure is populated the counts of
\* filesByFolder, the "root" entry included, add up to totalJsonFiles, whatever
\* the top-level directories are called and whichever folder listings failed.
C25_FolderCountsSumToTotal ==
    cache.structure.populated =>
        SumCounts(cache.structure.filesByFolder, DOMAIN cache.structure.filesByFolder)
            = cache.structure.totalJsonFiles

=============================================================================
